---- MODULE Spec2Model ----
(***************************************************************************)
(* Report ingestion of the analysis dashboard (dashboard/backend/ingest.py) *)
(* and the run-detail read of its API (dashboard/backend/app.py), as a     *)
(* state machine over the report files, the SQLite store and the position  *)
(* of each caller.                                                         *)
(*                                                                         *)
(* The store is a single SQLite database.  A caller of ingest_reports      *)
(* writes through one connection per report file: the first DELETE/INSERT  *)
(* of a connection opens a transaction (Python's sqlite3 default) that     *)
(* works on a private image of the store (conn) and holds the write lock   *)
(* until conn.commit() publishes the image, or the connection is closed    *)
(* without commit and the image is dropped.  Every other access            *)
(* (run_exists, get_run, ...) uses a connection of its own and therefore   *)
(* reads the committed store (db).                                         *)
(***************************************************************************)
EXTENDS Integers, Sequences, FiniteSets, TLC

\* ------------------------------------------------------------------ bounds
\* Longest step_outcomes list of a generated report.
MaxSteps == 2
\* Longest failures.details list of a generated report.
MaxFailures == 2
\* Longest web_searches list of a generated report.
MaxSearches == 1

\* The *_full.json files of the reports directory.
Files == {"a_full.json", "b_full.json"}
\* The run identifiers reports carry.
RunIds == {"r1", "r2"}
\* The callers of ingest_reports (the CLI's ingest command, POST /api/ingest).
Callers == {"c1", "c2"}

\* SQL NULL / Python None / a missing JSON key.
NULL == "NULL"

\* ----------------------------------------------------------- report files
\* step_id = f"{run_id}_{step_number}": the pair determines the string and,
\* for numeric step numbers, the string determines the pair.
StepId(run_id, step_number) == <<run_id, step_number>>

\* step_outcomes <<[step |-> 1], ..., [step |-> n]>>.
Asc(n) == [j \in 1..n |-> [step |-> j]]

\* A well-formed JSON document; run_id is NULL when the key is missing or empty.
Report(run_id, step_outcomes, details, web_searches) ==
    [kind |-> "json", run_id |-> run_id, step_outcomes |-> step_outcomes,
     failures |-> details, web_searches |-> web_searches]

\* One step, no failure, no search.
Small(r) == Report(r, Asc(1), <<>>, <<>>)
\* MaxSteps distinct steps, MaxFailures failures of step 1, MaxSearches
\* searches whose step_id names no step of the report.
Full(r) == Report(r, Asc(MaxSteps), [j \in 1..MaxFailures |-> [step |-> 1]],
                  [j \in 1..MaxSearches |-> [step_id |-> StepId(r, 0)]])
\* Two step_outcomes entries that carry the same step number.
Dup(r) == Report(r, Asc(1) \o Asc(1), <<[step |-> 1]>>, <<>>)

\* A file that is not valid JSON, and a directory entry that does not exist.
BadJson == [kind |-> "invalid", run_id |-> NULL, step_outcomes |-> <<>>,
            failures |-> <<>>, web_searches |-> <<>>]
NoFile == [kind |-> "absent", run_id |-> NULL, step_outcomes |-> <<>>,
           failures |-> <<>>, web_searches |-> <<>>]

Reports == {Small(r) : r \in RunIds} \cup {Full(r) : r \in RunIds}
           \cup {Dup(r) : r \in RunIds}
Contents == Reports \cup {Small(NULL), BadJson}

\* ------------------------------------------------------------------ store
EmptyStore == [runs |-> <<>>, steps |-> <<>>, failures |-> <<>>, web_searches |-> <<>>]

\* The tables of the store, each a sequence of rows in insertion order.
Tables == {"runs", "steps", "failures", "web_searches"}


\* run_exists(run_id) of db.py: whether the runs table holds the identifier.
run_exists(d, run_id) == \E j \in 1..Len(d.runs) : d.runs[j].run_id = run_id

\* The rows of a table that belong to a run.
RowsOf(d, table, run_id) ==
    LET Mine(x) == x.run_id = run_id IN SelectSeq(d[table], Mine)

\* Schema of db.py: runs.run_id is the primary key of runs, steps.id the
\* primary key of steps; failures and web_searches rows carry no key of
\* their own, and no foreign key is enforced.
Violates(d, table, row) ==
    \/ table = "runs" /\ \E j \in 1..Len(d.runs) : d.runs[j].run_id = row.run_id
    \/ table = "steps" /\ \E j \in 1..Len(d.steps) : d.steps[j].id = row.id

\* ----------------------------------------------------------- the writer
\* Each row carries src, the document it was written from.  src is not a
\* column: it is a history tag that lets a property say which ingestion a
\* row belongs to.

\* INSERT INTO runs (classified_at is written as None).
RunRow(data) ==
    [run_id |-> data.run_id, classified_at |-> NULL, src |-> data]

\* Mutant: a step is written with a default classification.
StepRowDefaultClass(data, i) ==
    [id |-> StepId(data.run_id, data.step_outcomes[i].step),
     run_id |-> data.run_id,
     step_number |-> data.step_outcomes[i].step,
     classification |-> "unknown",
     classification_confidence |-> NULL,
     classification_reasoning |-> NULL,
     classification_evidence |-> NULL,
     approach_changed |-> NULL,
     same_file_repeated |-> NULL,
     error_category_stable |-> NULL,
     src |-> data]

\* INSERT INTO steps for step_outcomes[i]: the seven classifier-owned
\* columns are written as None.
StepRow(data, i) ==
    [id |-> StepId(data.run_id, data.step_outcomes[i].step),
     run_id |-> data.run_id,
     step_number |-> data.step_outcomes[i].step,
     classification |-> NULL,
     classification_confidence |-> NULL,
     classification_reasoning |-> NULL,
     classification_evidence |-> NULL,
     approach_changed |-> NULL,
     same_file_repeated |-> NULL,
     error_category_stable |-> NULL,
     src |-> data]

\* INSERT INTO failures for failures.details[i].
FailureRow(data, i) ==
    [run_id |-> data.run_id, step_number |-> data.failures[i].step, src |-> data]

\* INSERT INTO web_searches for web_searches[i].
SearchRow(data, i) ==
    [run_id |-> data.run_id, step_id |-> data.web_searches[i].step_id, src |-> data]

InsertStmt(table, row) == [op |-> "INSERT", table |-> table, run_id |-> row.run_id, row |-> <<row>>]
DeleteStmt(table, run_id) == [op |-> "DELETE", table |-> table, run_id |-> run_id, row |-> <<>>]

\* Mutant: a web search is written only when its step_id names a step of the report.
ingest_single_report_drops_dangling(data) ==
    LET Known(ws) == \E i \in 1..Len(data.step_outcomes) :
                        ws.step_id = StepId(data.run_id, data.step_outcomes[i].step)
        kept == SelectSeq(data.web_searches, Known)
    IN <<InsertStmt("runs", RunRow(data))>>
       \o [i \in 1..Len(data.step_outcomes) |-> InsertStmt("steps", StepRow(data, i))]
       \o [i \in 1..Len(data.failures) |-> InsertStmt("failures", FailureRow(data, i))]
       \o [i \in 1..Len(kept) |->
             InsertStmt("web_searches",
                        [run_id |-> data.run_id, step_id |-> kept[i].step_id, src |-> data])]

\* _ingest_single_report: the INSERT statements it issues, in order.
ingest_single_report(data) ==
    <<InsertStmt("runs", RunRow(data))>>
    \o [i \in 1..Len(data.step_outcomes) |-> InsertStmt("steps", StepRow(data, i))]
    \o [i \in 1..Len(data.failures) |-> InsertStmt("failures", FailureRow(data, i))]
    \o [i \in 1..Len(data.web_searches) |-> InsertStmt("web_searches", SearchRow(data, i))]

\* Mutant: the run row is deleted first.
delete_run_data_runs_first(run_id) ==
    <<DeleteStmt("runs", run_id), DeleteStmt("web_searches", run_id),
      DeleteStmt("failures", run_id), DeleteStmt("steps", run_id)>>

\* Mutant: the failures of the run are not deleted.
delete_run_data_keeps_failures(run_id) ==
    <<DeleteStmt("web_searches", run_id), DeleteStmt("steps", run_id),
      DeleteStmt("runs", run_id)>>

\* _delete_run_data: the DELETE statements it issues, in order.
delete_run_data(run_id) ==
    <<DeleteStmt("web_searches", run_id), DeleteStmt("failures", run_id),
      DeleteStmt("steps", run_id), DeleteStmt("runs", run_id)>>

\* cursor.execute of one statement on a store image; an INSERT that violates
\* a key raises instead (see Violates).
Raises(d, stmt) == stmt.op = "INSERT" /\ Violates(d, stmt.table, stmt.row[1])

Execute(d, stmt) ==
    IF stmt.op = "INSERT"
    THEN [d EXCEPT ![stmt.table] = Append(@, stmt.row[1])]
    ELSE LET Keep(x) == x.run_id # stmt.run_id
         IN [d EXCEPT ![stmt.table] = SelectSeq(@, Keep)]

\* ------------------------------------------------------- the orchestrator
\* Mutant: a report without run_id is skipped instead of counted as an error.
BranchSkipsNoRunId(content, force, exists) ==
    IF content.kind = "invalid" THEN "invalid_json"
    ELSE IF content.run_id = NULL THEN "skip"
    ELSE IF ~force /\ exists THEN "skip"
    ELSE IF force /\ exists THEN "replace"
    ELSE "ingest"

\* Mutant: force does not delete the existing run before the insert.
BranchNeverDeletes(content, force, exists) ==
    IF content.kind = "invalid" THEN "invalid_json"
    ELSE IF content.run_id = NULL THEN "no_run_id"
    ELSE IF ~force /\ exists THEN "skip"
    ELSE "ingest"

\* Mutant: an existing run is replaced whether or not force is set.
BranchReplacesExisting(content, force, exists) ==
    IF content.kind = "invalid" THEN "invalid_json"
    ELSE IF content.run_id = NULL THEN "no_run_id"
    ELSE IF exists THEN "replace"
    ELSE "ingest"

\* The branch ingest_reports takes for one candidate file.
Branch(content, force, exists) ==
    IF content.kind = "invalid" THEN "invalid_json"
    ELSE IF content.run_id = NULL THEN "no_run_id"
    ELSE IF ~force /\ exists THEN "skip"
    ELSE IF force /\ exists THEN "replace"
    ELSE "ingest"

\* The statements of the transaction of one file.
Transaction(data, branch) ==
    (IF branch = "replace" THEN delete_run_data(data.run_id) ELSE <<>>)
    \o ingest_single_report(data)

\* result = {"ingested": 0, "skipped": 0, "errors": 0}
ZeroResult == [ingested |-> 0, skipped |-> 0, errors |-> 0]
NoLog == [f \in Files |-> "none"]

\* The orders in which glob may list a set of files.
Orders(S) == {s \in [1..Cardinality(S) -> S] : \A i, j \in 1..Cardinality(S) : s[i] = s[j] => i = j}


\* ------------------------------------------------------------------ state
VARIABLES
    files,   \* the reports directory: file name -> content
    db,      \* the committed store
    lock,    \* who holds the write lock of the store: a caller, "rm", or "none"
    ing,     \* per caller: the position and locals of ingest_reports
    rd,      \* the position and response of one GET /api/runs/{run_id}
    rm,      \* the position of one explicit removal of a run
    aux,     \* history: what the previous call did, the store at call start
    call     \* one call of a function of the program: its arguments and its result

vars == <<files, db, lock, ing, rd, rm, aux, call>>

\* A caller outside ingest_reports.
Idle ==
    [pc |-> "idle", force |-> FALSE, report_files |-> <<>>, k |-> 1,
     data |-> NoFile, branch |-> "none", i |-> 1, conn |-> EmptyStore,
     result |-> ZeroResult, log |-> NoLog]

\* No request in progress.
NoRequest ==
    [pc |-> "idle", run_id |-> NULL, status |-> 0, run |-> <<>>, steps |-> <<>>,
     failures |-> <<>>, web_searches |-> <<>>, classifications |-> 0,
     after_removal |-> FALSE]

\* No removal in progress.
NoRemoval == [pc |-> "idle", run_id |-> NULL, i |-> 1, conn |-> EmptyStore]

\* No completed call to compare with.
NoHistory == [stable |-> FALSE, prev |-> NoLog, repeat |-> FALSE,
              db0 |-> EmptyStore, removed |-> {}]

\* No function call under study.
NoCall == [op |-> "none"]

\* Empty reports directory, empty store, nobody at work.
AtRest ==
    /\ files = [f \in Files |-> NoFile]
    /\ db = EmptyStore
    /\ lock = "none"
    /\ ing = [c \in Callers |-> Idle]
    /\ rd = NoRequest
    /\ rm = NoRemoval
    /\ aux = NoHistory

Init == AtRest /\ call = NoCall

\* The file the loop of ingest_reports is at.
Current(c) == ing[c].report_files[ing[c].k]

\* The branch taken for the current file, decided on the committed store.
CurrentBranch(c) ==
    Branch(files[Current(c)], ing[c].force, run_exists(db, files[Current(c)].run_id))

\* continue: the current file is counted and the loop moves on.
Counted(c, counter, outcome) ==
    [ing[c] EXCEPT !.result[counter] = @ + 1,
                   !.log[Current(c)] = outcome,
                   !.k = @ + 1,
                   !.pc = "peek",
                   !.data = NoFile, !.branch = "none", !.i = 1,
                   !.conn = EmptyStore]

\* Mutant: an error ends the loop.
FailedAborts(c) ==
    [Counted(c, "errors", "error") EXCEPT !.k = Len(ing[c].report_files) + 1]

\* An except clause of the loop body: the file is counted as an error and
\* the loop goes on with the next file.
Failed(c) == Counted(c, "errors", "error")

\* ---------------------------------------------------------------- actions
\* ingest_reports(force) is called: the directory is globbed.
Start(c, force) ==
    /\ ing[c].pc = "idle"
    /\ LET present == {f \in Files : files[f].kind # "absent"}
       IN \E order \in Orders(present) :
            ing' = [ing EXCEPT ![c] =
                      [Idle EXCEPT !.pc = IF present = {} THEN "done" ELSE "peek",
                                   !.force = force,
                                   !.report_files = order]]
    /\ aux' = [aux EXCEPT !.repeat = ~force /\ aux.stable,
                          !.stable = FALSE,
                          !.db0 = db]
    /\ UNCHANGED <<call, files, db, lock, rd, rm>>

\* json.load raises JSONDecodeError.
InvalidJson(c) ==
    /\ ing[c].pc = "peek" /\ ing[c].k <= Len(ing[c].report_files)
    /\ CurrentBranch(c) = "invalid_json"
    /\ ing' = [ing EXCEPT ![c] = Failed(c)]
    /\ UNCHANGED <<call, files, db, lock, rd, rm, aux>>

\* Mutant: a report without run_id is passed over without being counted.
NoRunIdNotCounted(c) ==
    /\ ing[c].pc = "peek" /\ ing[c].k <= Len(ing[c].report_files)
    /\ CurrentBranch(c) = "no_run_id"
    /\ ing' = [ing EXCEPT ![c] = [Failed(c) EXCEPT !.result = ing[c].result]]
    /\ UNCHANGED <<call, files, db, lock, rd, rm, aux>>

\* data.get("run_id") is missing or empty.
NoRunId(c) ==
    /\ ing[c].pc = "peek" /\ ing[c].k <= Len(ing[c].report_files)
    /\ CurrentBranch(c) = "no_run_id"
    /\ ing' = [ing EXCEPT ![c] = Failed(c)]
    /\ UNCHANGED <<call, files, db, lock, rd, rm, aux>>

\* not force and run_exists(run_id).
Skip(c) ==
    /\ ing[c].pc = "peek" /\ ing[c].k <= Len(ing[c].report_files)
    /\ CurrentBranch(c) = "skip"
    /\ ing' = [ing EXCEPT ![c] = Counted(c, "skipped", "skipped")]
    /\ UNCHANGED <<call, files, db, lock, rd, rm, aux>>

\* with get_db() as conn: the connection of this file is opened; force and
\* run_exists(run_id) decides whether _delete_run_data comes first.
Open(c) ==
    /\ ing[c].pc = "peek" /\ ing[c].k <= Len(ing[c].report_files)
    /\ CurrentBranch(c) \in {"replace", "ingest"}
    /\ ing' = [ing EXCEPT ![c].pc = "execute",
                          ![c].data = files[Current(c)],
                          ![c].branch = CurrentBranch(c),
                          ![c].i = 1]
    /\ UNCHANGED <<call, files, db, lock, rd, rm, aux>>

\* The image a statement of caller c works on: the first statement of a
\* connection begins the transaction on the committed store.
Image(c) == IF lock = c THEN ing[c].conn ELSE db

\* The statement the caller is at.
Statement(c) == Transaction(ing[c].data, ing[c].branch)[ing[c].i]

\* Mutant: every statement is committed as it is executed.
ExecuteOkAutocommit(c) ==
    /\ ing[c].pc = "execute"
    /\ lock \in {"none", c}
    /\ ~Raises(Image(c), Statement(c))
    /\ lock' = c
    /\ db' = Execute(Image(c), Statement(c))
    /\ ing' = [ing EXCEPT ![c].conn = Execute(Image(c), Statement(c)),
                          ![c].i = @ + 1,
                          ![c].pc = IF ing[c].i = Len(Transaction(ing[c].data, ing[c].branch))
                                    THEN "commit" ELSE "execute"]
    /\ UNCHANGED <<call, files, rd, rm, aux>>

\* Mutant: _delete_run_data commits its own deletions.
ExecuteOkCommitsDelete(c) ==
    /\ ing[c].pc = "execute"
    /\ lock \in {"none", c}
    /\ ~Raises(Image(c), Statement(c))
    /\ lock' = c
    /\ db' = IF Statement(c).op = "DELETE" THEN Execute(Image(c), Statement(c)) ELSE db
    /\ ing' = [ing EXCEPT ![c].conn = Execute(Image(c), Statement(c)),
                          ![c].i = @ + 1,
                          ![c].pc = IF ing[c].i = Len(Transaction(ing[c].data, ing[c].branch))
                                    THEN "commit" ELSE "execute"]
    /\ UNCHANGED <<call, files, rd, rm, aux>>

\* cursor.execute succeeds.
ExecuteOk(c) ==
    /\ ing[c].pc = "execute"
    /\ lock \in {"none", c}
    /\ ~Raises(Image(c), Statement(c))
    /\ lock' = c
    /\ ing' = [ing EXCEPT ![c].conn = Execute(Image(c), Statement(c)),
                          ![c].i = @ + 1,
                          ![c].pc = IF ing[c].i = Len(Transaction(ing[c].data, ing[c].branch))
                                    THEN "commit" ELSE "execute"]
    /\ UNCHANGED <<call, files, db, rd, rm, aux>>

\* Mutant: a statement that raises is passed over and the transaction goes on.
ExecuteRaisesPassesOver(c) ==
    /\ ing[c].pc = "execute"
    /\ lock \in {"none", c}
    /\ Raises(Image(c), Statement(c))
    /\ lock' = c
    /\ ing' = [ing EXCEPT ![c].conn = Image(c),
                          ![c].i = @ + 1,
                          ![c].pc = IF ing[c].i = Len(Transaction(ing[c].data, ing[c].branch))
                                    THEN "commit" ELSE "execute"]
    /\ UNCHANGED <<call, files, db, rd, rm, aux>>

\* Mutant: when a statement raises, what the transaction did so far is committed.
ExecuteRaisesCommits(c) ==
    /\ ing[c].pc = "execute"
    /\ lock \in {"none", c}
    /\ Raises(Image(c), Statement(c))
    /\ lock' = "none"
    /\ db' = Image(c)
    /\ ing' = [ing EXCEPT ![c] = Failed(c)]
    /\ UNCHANGED <<call, files, rd, rm, aux>>

\* cursor.execute raises: the with block is left, the connection is closed
\* without commit, and the except clause counts the file.
ExecuteRaises(c) ==
    /\ ing[c].pc = "execute"
    /\ lock \in {"none", c}
    /\ Raises(Image(c), Statement(c))
    /\ lock' = "none"
    /\ ing' = [ing EXCEPT ![c] = Failed(c)]
    /\ UNCHANGED <<call, files, db, rd, rm, aux>>

\* conn.commit(), then the file is counted as ingested.
Commit(c) ==
    /\ ing[c].pc = "commit"
    /\ lock = c
    /\ db' = ing[c].conn
    /\ lock' = "none"
    /\ ing' = [ing EXCEPT ![c] = Counted(c, "ingested", "ingested")]
    /\ aux' = [aux EXCEPT !.removed = @ \ {ing[c].data.run_id}]
    /\ UNCHANGED <<call, files, rd, rm>>

\* The loop is over: return result.
Return(c) ==
    /\ ing[c].pc = "peek" /\ ing[c].k > Len(ing[c].report_files)
    /\ ing' = [ing EXCEPT ![c].pc = "done"]
    /\ UNCHANGED <<call, files, db, lock, rd, rm, aux>>

\* The caller has the result; what the call did is remembered.
Exit(c) ==
    /\ ing[c].pc = "done"
    /\ ing' = [ing EXCEPT ![c] = Idle]
    /\ aux' = [aux EXCEPT !.stable = ~ing[c].force,
                          !.prev = IF ing[c].force THEN NoLog ELSE ing[c].log,
                          !.repeat = FALSE,
                          !.db0 = EmptyStore]
    /\ UNCHANGED <<call, files, db, lock, rd, rm>>

\* Between calls a report file is written, replaced or removed.
WriteFile(f, content) ==
    /\ \A c \in Callers : ing[c].pc = "idle"
    /\ content # files[f]
    /\ files' = [files EXCEPT ![f] = content]
    /\ aux' = [aux EXCEPT !.stable = FALSE, !.prev = NoLog]
    /\ UNCHANGED <<call, db, lock, ing, rd, rm>>

\* The external classifier labels one unclassified step.
Classify(j) ==
    /\ lock = "none"
    /\ j \in 1..Len(db.steps)
    /\ db.steps[j].classification = NULL
    /\ db' = [db EXCEPT !.steps[j] =
                [@ EXCEPT !.classification = "architectural",
                          !.classification_confidence = "high",
                          !.classification_reasoning = "text",
                          !.classification_evidence = "text",
                          !.approach_changed = FALSE,
                          !.same_file_repeated = FALSE,
                          !.error_category_stable = TRUE]]
    /\ aux' = [aux EXCEPT !.stable = FALSE, !.prev = NoLog, !.repeat = FALSE]
    /\ UNCHANGED <<call, files, lock, ing, rd, rm>>

\* ------------------------------------------------ GET /api/runs/{run_id}
\* get_run(run_id): the request ends with 404 when the run is not found.
GetRun(run_id) ==
    /\ rd.pc = "idle"
    /\ rd' = IF run_exists(db, run_id)
             THEN [NoRequest EXCEPT !.pc = "steps", !.run_id = run_id,
                                    !.run = RowsOf(db, "runs", run_id),
                                    !.after_removal = run_id \in aux.removed]
             ELSE [NoRequest EXCEPT !.pc = "done", !.run_id = run_id,
                                    !.status = 404,
                                    !.after_removal = run_id \in aux.removed]
    /\ UNCHANGED <<call, files, db, lock, ing, rm, aux>>

\* get_steps_for_run(run_id)
GetSteps ==
    /\ rd.pc = "steps"
    /\ rd' = [rd EXCEPT !.pc = "failures", !.steps = RowsOf(db, "steps", rd.run_id)]
    /\ UNCHANGED <<call, files, db, lock, ing, rm, aux>>

\* get_failures_for_run(run_id)
GetFailures ==
    /\ rd.pc = "failures"
    /\ rd' = [rd EXCEPT !.pc = "web_searches",
                        !.failures = RowsOf(db, "failures", rd.run_id)]
    /\ UNCHANGED <<call, files, db, lock, ing, rm, aux>>

\* get_web_searches_for_run(run_id)
GetWebSearches ==
    /\ rd.pc = "web_searches"
    /\ rd' = [rd EXCEPT !.pc = "classifications",
                        !.web_searches = RowsOf(db, "web_searches", rd.run_id)]
    /\ UNCHANGED <<call, files, db, lock, ing, rm, aux>>

\* get_classification_summary(run_id): here the number of steps it counts.
GetClassifications ==
    /\ rd.pc = "classifications"
    /\ rd' = [rd EXCEPT !.pc = "done", !.status = 200,
                        !.classifications = Len(RowsOf(db, "steps", rd.run_id))]
    /\ UNCHANGED <<call, files, db, lock, ing, rm, aux>>

\* The response is sent.
Respond ==
    /\ rd.pc = "done"
    /\ rd' = NoRequest
    /\ UNCHANGED <<call, files, db, lock, ing, rm, aux>>

Read ==
    \/ \E run_id \in RunIds : GetRun(run_id)
    \/ GetSteps
    \/ GetFailures
    \/ GetWebSearches
    \/ GetClassifications
    \/ Respond

\* ------------------------------------------------------ explicit removal
\* with get_db() as conn: _delete_run_data(conn, run_id); conn.commit()
RemoveStart(run_id) ==
    /\ rm.pc = "idle"
    /\ run_exists(db, run_id)
    /\ rm' = [NoRemoval EXCEPT !.pc = "execute", !.run_id = run_id]
    /\ UNCHANGED <<call, files, db, lock, ing, rd, aux>>

RemoveExecute ==
    /\ rm.pc = "execute"
    /\ lock \in {"none", "rm"}
    /\ lock' = "rm"
    /\ rm' = [rm EXCEPT !.conn = Execute(IF lock = "rm" THEN rm.conn ELSE db,
                                         delete_run_data(rm.run_id)[rm.i]),
                        !.i = @ + 1,
                        !.pc = IF rm.i = Len(delete_run_data(rm.run_id))
                               THEN "commit" ELSE "execute"]
    /\ UNCHANGED <<call, files, db, ing, rd, aux>>

RemoveCommit ==
    /\ rm.pc = "commit"
    /\ lock = "rm"
    /\ db' = rm.conn
    /\ lock' = "none"
    /\ rm' = NoRemoval
    /\ aux' = [aux EXCEPT !.removed = @ \cup {rm.run_id},
                          !.stable = FALSE, !.prev = NoLog, !.repeat = FALSE]
    /\ UNCHANGED <<call, files, ing, rd>>

Remove ==
    \/ \E run_id \in RunIds : RemoveStart(run_id)
    \/ RemoveExecute
    \/ RemoveCommit

\* ---------------------------------------------------------- specifications
Ingest(c) ==
    \/ \E force \in BOOLEAN : Start(c, force)
    \/ InvalidJson(c)
    \/ NoRunId(c)
    \/ Skip(c)
    \/ Open(c)
    \/ ExecuteOk(c)
    \/ ExecuteRaises(c)
    \/ Commit(c)
    \/ Return(c)
    \/ Exit(c)

Write == \E f \in Files, content \in Contents \cup {NoFile} : WriteFile(f, content)

\* The same for one file and the reports of one run.
WriteOne ==
    \E content \in {Small("r1"), Full("r1"), Dup("r1"), BadJson, Small(NULL)} :
        WriteFile("a_full.json", content)

\* The same for two files that carry different runs.
WriteTwo ==
    \/ \E content \in {Full("r1"), Dup("r1"), BadJson, Small(NULL)} :
          WriteFile("a_full.json", content)
    \/ WriteFile("b_full.json", Small("r2"))

\* One caller at a time: the single-process, single-writer setting.
Next ==
    \/ Ingest("c1")
    \/ Write

Spec == Init /\ [][Next]_vars

\* One caller, and the external classifier at work on the committed steps.
NextClassify ==
    \/ Ingest("c1")
    \/ WriteOne
    \/ \E j \in 1..MaxSteps : Classify(j)

SpecClassify == Init /\ [][NextClassify]_vars

\* One caller, and a request GET /api/runs/{run_id} served meanwhile.
NextRead ==
    \/ Ingest("c1")
    \/ WriteOne
    \/ Read

SpecRead == Init /\ [][NextRead]_vars

\* One caller, explicit removals, and a request served meanwhile.
NextRemove ==
    \/ Ingest("c1")
    \/ WriteTwo
    \/ Remove
    \/ Read

SpecRemove == Init /\ [][NextRemove]_vars


\* ------------------------------------------------------------- properties
\* The store holds exactly one run row for the run of `data`, and the step,
\* failure and search rows of that run are exactly the entries of `data`,
\* in order, each written from `data`.
HoldsExactly(d, data) ==
    LET r == data.run_id
        runs == RowsOf(d, "runs", r)
        steps == RowsOf(d, "steps", r)
        fails == RowsOf(d, "failures", r)
        searches == RowsOf(d, "web_searches", r)
    IN /\ Len(runs) = 1 /\ runs[1].src = data
       /\ Len(steps) = Len(data.step_outcomes)
       /\ \A j \in 1..Len(steps) :
            steps[j].step_number = data.step_outcomes[j].step /\ steps[j].src = data
       /\ Len(fails) = Len(data.failures)
       /\ \A j \in 1..Len(fails) :
            fails[j].step_number = data.failures[j].step /\ fails[j].src = data
       /\ Len(searches) = Len(data.web_searches)
       /\ \A j \in 1..Len(searches) :
            searches[j].step_id = data.web_searches[j].step_id /\ searches[j].src = data

\* The position of a file in the list the call iterates over (0: not listed).
Position(c, f) ==
    IF \E j \in 1..Len(ing[c].report_files) : ing[c].report_files[j] = f
    THEN CHOOSE j \in 1..Len(ing[c].report_files) : ing[c].report_files[j] = f
    ELSE 0

\* The loop of the call has dealt with the file.
Processed(c, f) == Position(c, f) # 0 /\ Position(c, f) < ing[c].k

\* C1: a second ingest_reports(force=False) over the unchanged files, with no
\* other store change since the first one completed, ingests nothing, counts
\* every file the first call ingested as skipped, and leaves the store as it was.
C1_RepeatIsNoOp ==
    (aux.repeat /\ ing["c1"].pc # "idle") =>
        /\ db = aux.db0
        /\ ing["c1"].result.ingested = 0
        /\ \A f \in Files :
             aux.prev[f] = "ingested" =>
                /\ Position("c1", f) # 0
                /\ ing["c1"].log[f] = IF Processed("c1", f) THEN "skipped" ELSE "none"

C1_Witness ==
    /\ aux.repeat /\ ing["c1"].pc = "done"
    /\ \E f \in Files : aux.prev[f] = "ingested" /\ ing["c1"].log[f] = "skipped"
    /\ ing["c1"].result.skipped >= 1
    /\ db # EmptyStore

\* C2: when ingest_reports(force=True) has ingested a file, the store holds
\* exactly one run row of its run_id and exactly the step, failure and search
\* records of the file; nothing an earlier ingestion of that run_id wrote is
\* left (stated for the last file of the call that carries the run_id).
C2_ForceReplace ==
    ing["c1"].force =>
        \A f \in Files :
            ( /\ ing["c1"].log[f] = "ingested"
              /\ ~\E g \in Files : /\ ing["c1"].log[g] = "ingested"
                                   /\ files[g].run_id = files[f].run_id
                                   /\ Position("c1", g) > Position("c1", f) )
            => HoldsExactly(db, files[f])

C2_Witness ==
    /\ ing["c1"].force /\ ing["c1"].pc = "done"
    /\ \E f \in Files :
         /\ ing["c1"].log[f] = "ingested"
         /\ run_exists(aux.db0, files[f].run_id)
         /\ Len(RowsOf(aux.db0, "steps", files[f].run_id)) # Len(files[f].step_outcomes)
         /\ Len(RowsOf(db, "steps", files[f].run_id)) = Len(files[f].step_outcomes)

\* C3: in every committed state a run row is present only together with the
\* complete step, failure and search records of the report it was written
\* from, and no record is present without its run row: a report whose insert
\* raised has left nothing.
C3_Atomic ==
    /\ \A j \in 1..Len(db.runs) : HoldsExactly(db, db.runs[j].src)
    /\ \A t \in {"steps", "failures", "web_searches"} :
         \A j \in 1..Len(db[t]) : run_exists(db, db[t][j].run_id)

C3_Witness ==
    \E f \in Files, r \in RunIds :
        /\ files[f] = Dup(r) /\ ing["c1"].log[f] = "error"
        /\ \A t \in Tables : RowsOf(db, t, r) = <<>>
        /\ \E q \in RunIds : HoldsExactly(db, Full(q))


\* The file reaches its terminal state in this step.
Ends(c, f) == ing[c].log[f] = "none" /\ ing'[c].log[f] # "none"

\* C4 as stated: every file ends in one terminal state decided by its run_id,
\* the store and force alone: no run_id -> error; run present and not force
\* -> skipped, nothing written; otherwise -> (existing data deleted,) report
\* ingested and committed.
C4_Original ==
    [][\A f \in Files :
        Ends("c1", f) =>
          LET r == files[f].run_id
              exists == run_exists(db, r)
              out == ing'["c1"].log[f]
          IN /\ (r = NULL => out = "error" /\ db' = db)
             /\ (r # NULL /\ exists /\ ~ing["c1"].force => out = "skipped" /\ db' = db)
             /\ (r # NULL /\ (~exists \/ ing["c1"].force) =>
                    out = "ingested" /\ HoldsExactly(db', files[f]))]_vars

\* C4 amended: as above, but a report that is to be ingested ends as
\* ingested only when all its inserts succeed; when an insert raises it ends
\* as error and nothing of its transaction (the deletion included) is
\* committed.  A terminal state, once reached, stays for the rest of the call,
\* and when the call returns every listed file has one.
C4_StateMachine ==
    /\ [][\A f \in Files :
            Ends("c1", f) =>
              LET r == files[f].run_id
                  exists == run_exists(db, r)
                  out == ing'["c1"].log[f]
              IN /\ (r = NULL => out = "error" /\ db' = db)
                 /\ (r # NULL /\ exists /\ ~ing["c1"].force =>
                        out = "skipped" /\ db' = db /\ ing["c1"].pc = "peek")
                 /\ (r # NULL /\ (~exists \/ ing["c1"].force) =>
                        \/ /\ out = "ingested" /\ HoldsExactly(db', files[f])
                           /\ ing["c1"].pc = "commit"
                           /\ ing["c1"].branch = (IF exists THEN "replace" ELSE "ingest")
                        \/ /\ out = "error" /\ db' = db
                           /\ ing["c1"].pc = "execute"
                           /\ Raises(Image("c1"), Statement("c1")))]_vars
    /\ [][\A f \in Files :
            (ing["c1"].log[f] # "none" /\ ing'["c1"].pc # "idle") =>
                ing'["c1"].log[f] = ing["c1"].log[f]]_vars
    /\ [](ing["c1"].pc = "done" =>
            \A f \in Files : ing["c1"].log[f] = "none" <=> Position("c1", f) = 0)

C4_Witness ==
    /\ ing["c1"].pc = "done" /\ ing["c1"].force
    /\ \E f, g \in Files :
         /\ ing["c1"].log[f] = "ingested" /\ run_exists(aux.db0, files[f].run_id)
         /\ ing["c1"].log[g] = "error" /\ files[g].run_id \in RunIds

\* The statements of a transaction run one after the other on an image.
RECURSIVE RunStatements(_, _)
RunStatements(d, stmts) ==
    IF stmts = <<>> THEN [ok |-> TRUE, db |-> d]
    ELSE IF Raises(d, Head(stmts)) THEN [ok |-> FALSE, db |-> d]
    ELSE RunStatements(Execute(d, Head(stmts)), Tail(stmts))

\* What one file alone does to a store, and its outcome.
Alone(d, content, force) ==
    LET b == Branch(content, force, run_exists(d, content.run_id))
        t == RunStatements(d, Transaction(content, b))
    IN IF b \in {"invalid_json", "no_run_id"} THEN [db |-> d, outcome |-> "error"]
       ELSE IF b = "skip" THEN [db |-> d, outcome |-> "skipped"]
       ELSE IF t.ok THEN [db |-> t.db, outcome |-> "ingested"]
       ELSE [db |-> d, outcome |-> "error"]

\* What a list of files does to a store, and the outcome of each.
RECURSIVE Batch(_, _, _)
Batch(d, fs, force) ==
    IF fs = <<>> THEN [db |-> d, log |-> <<>>]
    ELSE LET h == Alone(d, files[Head(fs)], force)
             rest == Batch(h.db, Tail(fs), force)
         IN [db |-> rest.db, log |-> <<h.outcome>> \o rest.log]

\* C5: when the call returns, every failed file is counted in errors, and the
\* store and the outcome of every other file are those of the same call over
\* the batch without the failed files: a failure neither changes what earlier
\* files committed nor what later files do.
C5_Isolation ==
    ing["c1"].pc = "done" =>
        LET IsGood(f) == ing["c1"].log[f] # "error"
            IsError(f) == ing["c1"].log[f] = "error"
            good == SelectSeq(ing["c1"].report_files, IsGood)
            ref == Batch(aux.db0, good, ing["c1"].force)
        IN /\ db = ref.db
           /\ \A j \in 1..Len(good) : ing["c1"].log[good[j]] = ref.log[j]
           /\ ing["c1"].result.errors = Len(SelectSeq(ing["c1"].report_files, IsError))
           /\ \A j \in 1..Len(ing["c1"].report_files) :
                ing["c1"].log[ing["c1"].report_files[j]] # "none"

C5_Witness ==
    /\ ing["c1"].pc = "done" /\ Len(ing["c1"].report_files) = 2
    /\ ing["c1"].log[ing["c1"].report_files[1]] = "error"
    /\ files[ing["c1"].report_files[1]].run_id \in RunIds
    /\ ing["c1"].log[ing["c1"].report_files[2]] = "ingested"
    /\ aux.db0 # EmptyStore /\ ing["c1"].result.errors = 1

\* The store holds one run row, one step row per step_outcomes entry, one
\* failure row per failures.details entry and one search row per
\* web_searches entry of the report.
OnePerEntry(d, data) ==
    /\ Len(RowsOf(d, "runs", data.run_id)) = 1
    /\ Len(RowsOf(d, "steps", data.run_id)) = Len(data.step_outcomes)
    /\ Len(RowsOf(d, "failures", data.run_id)) = Len(data.failures)
    /\ Len(RowsOf(d, "web_searches", data.run_id)) = Len(data.web_searches)

\* No two step_outcomes entries carry the same step number.
DistinctSteps(data) ==
    \A i, j \in 1..Len(data.step_outcomes) :
        data.step_outcomes[i].step = data.step_outcomes[j].step => i = j

\* C6 as stated: the writer, run on any parsed report, commits one record per
\* entry, also when several step_outcomes entries carry the same step number.
C6_Original ==
    [][\A f \in Files :
        (Ends("c1", f) /\ ing["c1"].pc \in {"execute", "commit"}) =>
            /\ ing'["c1"].log[f] = "ingested"
            /\ OnePerEntry(db', files[f])]_vars

\* C6 amended: a commit of the writer leaves exactly one run record and one
\* step, failure and search record per entry (a search whose step_id names no
\* step included), and the step numbers of a committed report are pairwise
\* distinct; a report in which two step_outcomes entries carry the same step
\* number is never committed: its insert raises and the store stays as it was.
C6_OnePerEntry ==
    [][\A f \in Files :
        (Ends("c1", f) /\ ing["c1"].pc \in {"execute", "commit"}) =>
            IF DistinctSteps(files[f])
            THEN /\ ing'["c1"].log[f] = "ingested"
                 /\ OnePerEntry(db', files[f])
                 /\ \A q \in RunIds \ {files[f].run_id}, t \in Tables :
                        RowsOf(db', t, q) = RowsOf(db, t, q)
            ELSE ing'["c1"].log[f] = "error" /\ db' = db]_vars

C6_Witness ==
    \E f \in Files :
        /\ ing["c1"].log[f] = "ingested"
        /\ Len(files[f].web_searches) >= 1 /\ Len(files[f].failures) >= 2
        /\ OnePerEntry(db, files[f])
        /\ \E j \in 1..Len(db.web_searches) :
             /\ db.web_searches[j].run_id = files[f].run_id
             /\ \A i \in 1..Len(db.steps) : db.steps[i].id # db.web_searches[j].step_id

\* C8: with one caller, the INSERT into runs is never executed on an image
\* that holds the run_id: no uniqueness violation on the run identifier occurs.
C8_NoDuplicateRun ==
    (ing["c1"].pc = "execute" /\ Statement("c1").op = "INSERT"
        /\ Statement("c1").table = "runs")
    => ~run_exists(Image("c1"), ing["c1"].data.run_id)

C8_Witness ==
    /\ ing["c1"].pc = "execute" /\ ing["c1"].force
    /\ Statement("c1").op = "INSERT" /\ Statement("c1").table = "runs"
    /\ run_exists(db, ing["c1"].data.run_id)
    /\ \E g \in Files : /\ Processed("c1", g) /\ ing["c1"].log[g] = "ingested"
                        /\ files[g].run_id = ing["c1"].data.run_id


\* The seven columns the classifier owns are all unset.
Unclassified(row) ==
    /\ row.classification = NULL
    /\ row.classification_confidence = NULL
    /\ row.classification_reasoning = NULL
    /\ row.classification_evidence = NULL
    /\ row.approach_changed = NULL
    /\ row.same_file_repeated = NULL
    /\ row.error_category_stable = NULL

\* C10: at the commit of an ingestion, forced or not, every step of the
\* ingested run has the seven classifier-owned fields unset, whatever the
\* classifier had stored for the run before.
C10_StartUnclassified ==
    [][(ing["c1"].pc = "commit" /\ ing'["c1"].pc # "commit") =>
        /\ RowsOf(db', "steps", ing["c1"].data.run_id) # <<>>
        /\ \A j \in 1..Len(db'.steps) :
             db'.steps[j].run_id = ing["c1"].data.run_id => Unclassified(db'.steps[j])]_vars

C10_Witness ==
    \E f \in Files :
        /\ ing["c1"].force /\ ing["c1"].log[f] = "ingested"
        /\ \E j \in 1..Len(aux.db0.steps) :
             /\ aux.db0.steps[j].run_id = files[f].run_id
             /\ ~Unclassified(aux.db0.steps[j])
        /\ RowsOf(db, "steps", files[f].run_id) # <<>>
        /\ \A j \in 1..Len(db.steps) :
             db.steps[j].run_id = files[f].run_id => Unclassified(db.steps[j])


\* The rows one query returned are all the entries of one ingested report.
WholeSet(rows, entries(_)) ==
    rows # <<>> =>
        /\ \A j \in 1..Len(rows) : rows[j].src = rows[1].src
        /\ Len(rows) = Len(entries(rows[1].src))

StepsOf(data) == data.step_outcomes
FailuresOf(data) == data.failures
SearchesOf(data) == data.web_searches

\* C9 as stated: a response of GET /api/runs/{run_id} served while an
\* ingestion runs is the complete record set of one committed ingestion.
C9_Original ==
    (rd.pc = "done" /\ rd.status = 200) =>
        LET data == rd.run[1].src
        IN /\ Len(rd.steps) = Len(data.step_outcomes)
           /\ \A j \in 1..Len(rd.steps) : rd.steps[j].src = data
           /\ Len(rd.failures) = Len(data.failures)
           /\ \A j \in 1..Len(rd.failures) : rd.failures[j].src = data
           /\ Len(rd.web_searches) = Len(data.web_searches)
           /\ \A j \in 1..Len(rd.web_searches) : rd.web_searches[j].src = data
           /\ rd.classifications = Len(data.step_outcomes)

\* C9 amended: each query of the request, taken alone, returns the complete
\* rows that one committed ingestion wrote to its table, never a part of an
\* ingestion in progress; a request that starts while a forced re-ingestion
\* of its run is between the delete and the commit still finds the run.  The
\* parts of one response need not come from the same ingestion.
C9_CommittedReads ==
    /\ [](/\ Len(rd.run) <= 1
          /\ WholeSet(rd.steps, StepsOf)
          /\ WholeSet(rd.failures, FailuresOf)
          /\ WholeSet(rd.web_searches, SearchesOf)
          /\ (rd.pc \in {"failures", "web_searches", "classifications"} =>
                rd.steps # <<>>)
          /\ (rd.pc = "done" /\ rd.status = 200 => rd.classifications > 0))
    /\ [][(/\ rd.pc = "idle" /\ rd'.pc # "idle"
           /\ ing["c1"].pc \in {"execute", "commit"}
           /\ ing["c1"].branch = "replace"
           /\ rd'.run_id = ing["c1"].data.run_id)
          => rd'.status # 404]_vars

C9_Witness ==
    /\ rd.pc = "done" /\ rd.status = 200
    /\ rd.steps # <<>> /\ rd.steps[1].src # rd.run[1].src
    /\ WholeSet(rd.steps, StepsOf)
    /\ rd.failures # <<>>

\* C7: a committed removal of a run leaves no row of it in any table and
\* leaves the rows of every other run as they were; a request for the run
\* made after the removal is answered 404; and wherever the rows of a run are
\* deleted, its searches, failures and steps are deleted before the run row.
C7_CascadeDelete ==
    /\ [][(rm.pc = "commit" /\ rm'.pc = "idle") =>
            /\ \A t \in Tables : RowsOf(db', t, rm.run_id) = <<>>
            /\ \A q \in RunIds \ {rm.run_id}, t \in Tables :
                 RowsOf(db', t, q) = RowsOf(db, t, q)]_vars
    /\ [](/\ rd.after_removal => (rd.pc = "done" /\ rd.status = 404)
          /\ \A r \in aux.removed, t \in Tables : RowsOf(db, t, r) = <<>>
          /\ (rm.pc = "execute" /\ delete_run_data(rm.run_id)[rm.i].table = "runs") =>
                \A t \in Tables \ {"runs"} : RowsOf(rm.conn, t, rm.run_id) = <<>>
          /\ (ing["c1"].pc = "execute" /\ Statement("c1").op = "DELETE"
                /\ Statement("c1").table = "runs") =>
                \A t \in Tables \ {"runs"} :
                    RowsOf(Image("c1"), t, ing["c1"].data.run_id) = <<>>)

C7_Witness ==
    /\ rd.pc = "done" /\ rd.after_removal /\ rd.status = 404
    /\ \E r \in RunIds \ {rd.run_id} : HoldsExactly(db, Small(r))
    /\ \E f \in Files : files[f].run_id = rd.run_id /\ Len(files[f].failures) >= 1


\* ------------------------------------------------- derived fields of a step
\* The sub-steps of raw_data.steps a call is given, at most.
MaxRaw == 3

\* Python values: None, and a string as the sequence of its characters.
None == [is |-> "None", s |-> <<>>]
Str(s) == [is |-> "str", s |-> s]

\* Truthiness of s.get(key): the key is present and its string is not empty.
Truthy(v) == v.is = "str" /\ v.s # <<>>

\* sep.join(strs)
RECURSIVE Join(_, _)
Join(strs, sep) ==
    IF strs = <<>> THEN <<>>
    ELSE IF Len(strs) = 1 THEN strs[1]
    ELSE strs[1] \o sep \o Join(Tail(strs), sep)

\* list(dict.fromkeys(xs)): the distinct elements in order of first appearance.
RECURSIVE FromKeys(_)
FromKeys(xs) ==
    IF xs = <<>> THEN <<>>
    ELSE LET init == FromKeys(SubSeq(xs, 1, Len(xs) - 1))
             last == xs[Len(xs)]
         IN IF \E j \in 1..Len(init) : init[j] = last THEN init ELSE Append(init, last)

\* get_raw_steps_for_step_number
get_raw_steps_for_step_number(steps, step_number) ==
    LET Matches(x) == x.step = step_number IN SelectSeq(steps, Matches)

\* The phases _extract_phase_from_raw_steps collects: s.get("phase") of every
\* sub-step where it is truthy.
PhasesOf(raw_steps) ==
    LET HasPhase(x) == Truthy(x.phase)
        kept == SelectSeq(raw_steps, HasPhase)
    IN [j \in 1..Len(kept) |-> kept[j].phase.s]

\* Mutant: the phases are joined without removing the repeated ones.
extract_phase_joins_all(raw_steps) ==
    IF raw_steps = <<>> THEN None
    ELSE IF PhasesOf(raw_steps) = <<>> THEN None
    ELSE IF Len(PhasesOf(raw_steps)) = 1 THEN Str(PhasesOf(raw_steps)[1])
    ELSE Str(Join(PhasesOf(raw_steps), <<",">>))

\* _extract_phase_from_raw_steps
extract_phase_from_raw_steps(raw_steps) ==
    IF raw_steps = <<>> THEN None
    ELSE IF PhasesOf(raw_steps) = <<>> THEN None
    ELSE IF Len(FromKeys(PhasesOf(raw_steps))) = 1 THEN Str(FromKeys(PhasesOf(raw_steps))[1])
    ELSE Str(Join(FromKeys(PhasesOf(raw_steps)), <<",">>))

\* The phase field of a sub-step: absent, empty, or the name of a phase.
PhaseFields == {None, Str(<<>>), Str(<<"b">>), Str(<<"t">>)}

\* raw_data.steps of a report.
RawSteps ==
    UNION {[1..n -> [step : 1..2, phase : PhaseFields]] : n \in 0..MaxRaw}

InitPhase ==
    /\ AtRest
    /\ \E steps \in RawSteps, n \in 1..2 :
         call = [op |-> "phase", pc |-> "call", steps |-> steps, step_number |-> n,
                 result |-> None]

\* phase = _extract_phase_from_raw_steps(get_raw_steps_for_step_number(...))
ExtractPhase ==
    /\ call.op = "phase" /\ call.pc = "call"
    /\ call' = [call EXCEPT
                  !.pc = "done",
                  !.result = extract_phase_from_raw_steps(
                                get_raw_steps_for_step_number(call.steps, call.step_number))]
    /\ UNCHANGED <<files, db, lock, ing, rd, rm, aux>>

SpecPhase == InitPhase /\ [][ExtractPhase]_vars

\* The sub-steps of the call whose step number is the step's.
Matching == get_raw_steps_for_step_number(call.steps, call.step_number)

\* The phase strings of a list of sub-steps, in order.
PhaseStrings(subs) ==
    LET IsStr(x) == x.phase.is = "str"
        kept == SelectSeq(subs, IsStr)
    IN [j \in 1..Len(kept) |-> kept[j].phase.s]

\* C11 as stated: None when no sub-step matches, the shared value when all
\* matching sub-steps share one phase value, otherwise the distinct phase
\* values in order of first appearance joined by commas.
C11_Original ==
    (call.op = "phase" /\ call.pc = "done") =>
        call.result =
            IF Matching = <<>> THEN None
            ELSE IF \A j \in 1..Len(Matching) : Matching[j].phase = Matching[1].phase
                 THEN Matching[1].phase
            ELSE Str(Join(FromKeys(PhaseStrings(Matching)), <<",">>))

\* C11 amended: the cases are taken over the matching sub-steps that carry a
\* non-empty phase: None when there is none of them (so also when sub-steps
\* match but none names a phase), the value when they all share one,
\* otherwise their distinct values in order of first appearance joined by
\* commas, each value once.
C11_DerivedPhase ==
    (call.op = "phase" /\ call.pc = "done") =>
        LET ps == PhasesOf(Matching)
            Firsts == {j \in 1..Len(ps) : \A i \in 1..(j - 1) : ps[i] # ps[j]}
            IsFirst(j) == j \in Firsts
            firsts == SelectSeq([j \in 1..Len(ps) |-> j], IsFirst)
        IN /\ ps = <<>> => call.result = None
           /\ (ps # <<>> /\ \A j \in 1..Len(ps) : ps[j] = ps[1]) => call.result = Str(ps[1])
           /\ (\E j \in 1..Len(ps) : ps[j] # ps[1]) =>
                call.result = Str(Join([j \in 1..Len(firsts) |-> ps[firsts[j]]], <<",">>))

C11_Witness ==
    /\ call.op = "phase" /\ call.pc = "done"
    /\ call.result = Str(<<"b", ",", "t">>)
    /\ Len(Matching) = 3
    /\ \E j \in 1..3 : ~Truthy(Matching[j].phase)


\* The failures.details entries a call is given, at most.
MaxDetails == 3

\* [:1000]
SummaryLimit == 1000

\* A string of n characters c.
Rep(c, n) == [j \in 1..n |-> c]

\* s[:n]
Cut(s, n) == SubSeq(s, 1, IF Len(s) < n THEN Len(s) ELSE n)

\* _get_failures_for_step
get_failures_for_step(failures_details, step_number) ==
    LET Matches(x) == x.step = step_number IN SelectSeq(failures_details, Matches)

\* error_messages = [f.get("error", "") for f in step_failures if f.get("error")]
ErrorMessages(step_failures) ==
    LET HasError(x) == Truthy(x.error)
        kept == SelectSeq(step_failures, HasError)
    IN [j \in 1..Len(kept) |-> kept[j].error.s]

\* Mutant: each message is cut, then the messages are joined.
errors_summary_cuts_each(step_failures) ==
    IF ErrorMessages(step_failures) = <<>> THEN None
    ELSE Str(Join([j \in 1..Len(ErrorMessages(step_failures)) |->
                      Cut(ErrorMessages(step_failures)[j], SummaryLimit)],
                  <<" ", "|", " ">>))

\* errors_summary = " | ".join(error_messages)[:1000] if error_messages else None
errors_summary(step_failures) ==
    IF ErrorMessages(step_failures) = <<>> THEN None
    ELSE Str(Cut(Join(ErrorMessages(step_failures), <<" ", "|", " ">>), SummaryLimit))

\* The error field of a failure record: absent, empty, or a message; the
\* messages are such that two of them joined have fewer than, exactly and
\* more than 1000 characters, and one alone has more.
ErrorFields ==
    {None, Str(<<>>), Str(Rep("x", 400)), Str(Rep("y", 597)), Str(Rep("w", 1001))}

\* failures.details of a report.
FailureDetails ==
    UNION {[1..n -> [step : 1..2, error : ErrorFields]] : n \in 0..MaxDetails}

InitSummary ==
    /\ AtRest
    /\ \E details \in FailureDetails, n \in 1..2 :
         call = [op |-> "summary", pc |-> "call", details |-> details, step_number |-> n,
                 result |-> None]

\* errors_summary of the step, from _get_failures_for_step(...)
ErrorsSummary ==
    /\ call.op = "summary" /\ call.pc = "call"
    /\ call' = [call EXCEPT
                  !.pc = "done",
                  !.result = errors_summary(
                                get_failures_for_step(call.details, call.step_number))]
    /\ UNCHANGED <<files, db, lock, ing, rd, rm, aux>>

SpecSummary == InitSummary /\ [][ErrorsSummary]_vars

\* The non-empty error messages of the failure records of the step, in
\* record order, joined with " | ".
Joined ==
    LET Mine(x) == x.step = call.step_number /\ x.error.is = "str" /\ x.error.s # <<>>
        mine == SelectSeq(call.details, Mine)
    IN Join([j \in 1..Len(mine) |-> mine[j].error.s], <<" ", "|", " ">>)

\* C12: the summary of a step is the first 1000 characters of the joined
\* text: it is never longer than 1000 characters, is exactly 1000 characters
\* long when the joined text is longer, and is the whole joined text
\* otherwise (None being stored when the step has no non-empty message).
C12_ErrorSummary ==
    (call.op = "summary" /\ call.pc = "done") =>
        IF Joined = <<>> THEN call.result = None
        ELSE /\ call.result.is = "str"
             /\ Len(call.result.s) <= 1000
             /\ Len(Joined) > 1000 => Len(call.result.s) = 1000
             /\ Len(Joined) <= 1000 => Len(call.result.s) = Len(Joined)
             /\ \A j \in 1..Len(call.result.s) : call.result.s[j] = Joined[j]

C12_Witness ==
    /\ call.op = "summary" /\ call.pc = "done"
    /\ Len(Joined) > 1000 /\ Len(call.result.s) = 1000
    /\ call.result.s[1] = "y" /\ call.result.s[1000] = "x"
    /\ \A j \in 1..Len(call.details) : Len(call.details[j].error.s) < 1000


\* ------------------------------------------------ GET /api/patterns
\* UPPER(s.final_verdict)
Upper(v) ==
    IF v \in {"pass", "PASS"} THEN "PASS"
    ELSE IF v \in {"Proceed", "PROCEED"} THEN "PROCEED"
    ELSE IF v \in {"fail", "FAIL"} THEN "FAIL"
    ELSE v

\* round(x, 3) of the quotient num / den, in thousandths.
Round3(num, den) == (2000 * num + den) \div (2 * den)

\* FROM failures f JOIN steps s ON f.run_id = s.run_id AND
\* f.step_number = s.step_number WHERE f.category IS NOT NULL AND
\* f.category != '' AND s.retries > 0: one row per failure record and step
\* (the steps of one run, so that the step number is the step's id).
JoinedRows(steps, failures) ==
    LET Kept(f) == /\ f.category # NULL /\ f.category # ""
                   /\ f.step \in DOMAIN steps
                   /\ steps[f.step].retries > 0
        kept == SelectSeq(failures, Kept)
    IN [j \in 1..Len(kept) |->
          [category |-> kept[j].category, id |-> kept[j].step,
           retries |-> steps[kept[j].step].retries,
           final_verdict |-> steps[kept[j].step].final_verdict]]

\* The self-correction query and the loop over its rows: per category
\* total, self_corrected, failed and rate.  SUM(CASE WHEN cond THEN 1 ELSE 0
\* END) is the number of rows of the group that satisfy cond.
self_correction(steps, failures) ==
    LET rows == JoinedRows(steps, failures)
        cats == {rows[j].category : j \in 1..Len(rows)}
        Group(c) == LET In(x) == x.category = c IN SelectSeq(rows, In)
        Corrected(x) == x.retries > 0 /\ Upper(x.final_verdict) \in {"PROCEED", "PASS"}
        Lost(x) == x.retries > 0 /\ Upper(x.final_verdict) \in {"FAIL", "SKIP"}
        Total(c) == Cardinality({Group(c)[j].id : j \in 1..Len(Group(c))})
    IN [c \in cats |->
          [total |-> Total(c),
           self_corrected |-> Len(SelectSeq(Group(c), Corrected)),
           failed |-> Len(SelectSeq(Group(c), Lost)),
           rate |-> IF Total(c) > 0 THEN Round3(Len(SelectSeq(Group(c), Corrected)), Total(c))
                    ELSE 0]]

\* The steps of a run: step number -> retries and final verdict.
StepTables == [1..MaxSteps -> [retries : 0..1, final_verdict : {"PASS", "pass", "FAIL"}]]

\* The failures of the run.
FailureTables ==
    UNION {[1..n -> [step : 1..MaxSteps, category : {"timeout", "syntax", ""}]] :
             n \in 0..MaxFailures}

InitRate ==
    /\ AtRest
    /\ \E steps \in StepTables, failures \in FailureTables :
         call = [op |-> "rate", pc |-> "call", steps |-> steps, failures |-> failures,
                 result |-> <<>>]

\* get_patterns: the self_correction part of the response.
SelfCorrection ==
    /\ call.op = "rate" /\ call.pc = "call"
    /\ call' = [call EXCEPT !.pc = "done",
                            !.result = self_correction(call.steps, call.failures)]
    /\ UNCHANGED <<files, db, lock, ing, rd, rm, aux>>

SpecRate == InitRate /\ [][SelfCorrection]_vars

\* The distinct steps with retries > 0 and a failure of the category.
RetriedWith(c) ==
    {n \in DOMAIN call.steps :
        /\ call.steps[n].retries > 0
        /\ \E j \in 1..Len(call.failures) :
             call.failures[j].step = n /\ call.failures[j].category = c}

\* C13: for every category the reported rate is the share of the retried
\* steps with a failure of the category whose final verdict is PROCEED or
\* PASS; it lies between 0 and 1, and self_corrected + failed is at most total.
C13_SelfCorrectionRate ==
    (call.op = "rate" /\ call.pc = "done") =>
        \A c \in {"timeout", "syntax"} :
            RetriedWith(c) # {} =>
                LET good == {n \in RetriedWith(c) :
                               Upper(call.steps[n].final_verdict) \in {"PROCEED", "PASS"}}
                IN /\ c \in DOMAIN call.result
                   /\ call.result[c].total = Cardinality(RetriedWith(c))
                   /\ call.result[c].rate =
                        Round3(Cardinality(good), Cardinality(RetriedWith(c)))
                   /\ call.result[c].rate >= 0 /\ call.result[c].rate <= 1000
                   /\ call.result[c].self_corrected + call.result[c].failed
                        <= call.result[c].total


\* ------------------------------------------------------- GET /api/runs
\* get_steps_for_run / get_failures_for_run of db.py: the rows of the run.
get_rows_for_run(rows, run_id) ==
    LET Mine(x) == x.run_id = run_id IN SelectSeq(rows, Mine)

\* get_classification_summary(run_id)["architectural"], 0 when absent.
architectural_count(d, run_id) ==
    LET Arch(x) == x.run_id = run_id /\ x.classification = "architectural"
    IN Len(SelectSeq(d.steps, Arch))

\* runs.sort(key=lambda r: r.get("generated_at") or "", reverse=True): a
\* stable sort, latest first; a missing timestamp is 0 here and sorts last.
RECURSIVE SortByGeneratedAt(_)
SortByGeneratedAt(runs) ==
    IF runs = <<>> THEN <<>>
    ELSE LET rest == SortByGeneratedAt(Tail(runs))
             Before(x) == x.generated_at > Head(runs).generated_at
             NotBefore(x) == ~Before(x)
         IN SelectSeq(rest, Before) \o <<Head(runs)>> \o SelectSeq(rest, NotBefore)

\* Mutant: the error_category filter is applied to all runs instead of the
\* runs the earlier filters kept.
list_runs_category_from_all(d, status, has_architectural, build_phase, error_category) ==
    LET ByStatus(r) == r.status = status
        WithArch(r) == architectural_count(d, r.run_id) > 0
        WithoutArch(r) == architectural_count(d, r.run_id) = 0
        InPhase(r) == \E j \in 1..Len(d.steps) :
                         d.steps[j].run_id = r.run_id /\ d.steps[j].build_phase = build_phase
        WithCategory(r) == \E j \in 1..Len(d.failures) :
                         d.failures[j].run_id = r.run_id /\ d.failures[j].category = error_category
        runs1 == IF status \notin {NULL, ""} THEN SelectSeq(d.runs, ByStatus) ELSE d.runs
        runs2 == IF has_architectural = "true" THEN SelectSeq(runs1, WithArch)
                 ELSE IF has_architectural = "false" THEN SelectSeq(runs1, WithoutArch)
                 ELSE runs1
        runs3 == IF build_phase \notin {NULL, ""} THEN SelectSeq(runs2, InPhase) ELSE runs2
        runs4 == IF error_category \notin {NULL, ""} THEN SelectSeq(d.runs, WithCategory)
                 ELSE runs3
    IN SortByGeneratedAt(runs4)

\* list_runs: the filters one after the other, then the sort.
list_runs(d, status, has_architectural, build_phase, error_category) ==
    LET ByStatus(r) == r.status = status
        WithArch(r) == architectural_count(d, r.run_id) > 0
        WithoutArch(r) == architectural_count(d, r.run_id) = 0
        InPhase(r) == \E j \in 1..Len(get_rows_for_run(d.steps, r.run_id)) :
                         get_rows_for_run(d.steps, r.run_id)[j].build_phase = build_phase
        WithCategory(r) == \E j \in 1..Len(get_rows_for_run(d.failures, r.run_id)) :
                         get_rows_for_run(d.failures, r.run_id)[j].category = error_category
        runs1 == IF status \notin {NULL, ""} THEN SelectSeq(d.runs, ByStatus) ELSE d.runs
        runs2 == IF has_architectural = "true" THEN SelectSeq(runs1, WithArch)
                 ELSE IF has_architectural = "false" THEN SelectSeq(runs1, WithoutArch)
                 ELSE runs1
        runs3 == IF build_phase \notin {NULL, ""} THEN SelectSeq(runs2, InPhase) ELSE runs2
        runs4 == IF error_category \notin {NULL, ""} THEN SelectSeq(runs3, WithCategory)
                 ELSE runs3
    IN SortByGeneratedAt(runs4)

\* The steps a run may have: an architectural one in phase t, an
\* unclassified and an implementation one in phase b.
StepKinds ==
    <<[classification |-> "architectural", build_phase |-> "t"],
      [classification |-> NULL, build_phase |-> "b"],
      [classification |-> "implementation", build_phase |-> "b"]>>

\* The rows of a run in the three tables.
RunTables(run_id, status, generated_at, kinds, cats) ==
    LET Chosen(j) == j \in kinds
        ns == SelectSeq(<<1, 2, 3>>, Chosen)
        HasCat(c) == c \in cats
        cs == SelectSeq(<<"timeout", "syntax">>, HasCat)
    IN [runs |-> <<[run_id |-> run_id, status |-> status, generated_at |-> generated_at]>>,
        steps |-> [j \in 1..Len(ns) |->
                     [run_id |-> run_id, step_number |-> ns[j],
                      classification |-> StepKinds[ns[j]].classification,
                      build_phase |-> StepKinds[ns[j]].build_phase]],
        failures |-> [j \in 1..Len(cs) |-> [run_id |-> run_id, category |-> cs[j]]]]

\* The stores the request is served from: two runs.
ListStores ==
    {[t \in {"runs", "steps", "failures"} |-> a[t] \o b[t]] :
        a \in {RunTables("r1", st, g, ks, cs) :
                 st \in {"failed", "completed"}, g \in {0, 2},
                 ks \in SUBSET {1, 2, 3}, cs \in {{}, {"timeout"}, {"syntax"}}},
        b \in {RunTables("r2", st, 1, ks, cs) :
                 st \in {"failed", "completed"},
                 ks \in SUBSET {1, 2, 3}, cs \in {{}, {"timeout"}, {"syntax"}}}}

InitList ==
    /\ AtRest
    /\ \E d \in ListStores, status \in {NULL, "", "failed"},
          has_architectural \in {NULL, "true", "false"},
          build_phase \in {NULL, "b"}, error_category \in {NULL, "timeout"} :
         call = [op |-> "list", pc |-> "call", d |-> d, status |-> status,
                 has_architectural |-> has_architectural, build_phase |-> build_phase,
                 error_category |-> error_category, result |-> <<>>]

\* GET /api/runs
ListRuns ==
    /\ call.op = "list" /\ call.pc = "call"
    /\ call' = [call EXCEPT
                  !.pc = "done",
                  !.result = list_runs(call.d, call.status, call.has_architectural,
                                       call.build_phase, call.error_category)]
    /\ UNCHANGED <<files, db, lock, ing, rd, rm, aux>>

SpecList == InitList /\ [][ListRuns]_vars

\* The run satisfies every filter the request supplies (a parameter that is
\* absent or empty supplies none).
Satisfies(r) ==
    /\ call.status \notin {NULL, ""} => r.status = call.status
    /\ call.has_architectural = "true" =>
          \E j \in 1..Len(call.d.steps) :
              /\ call.d.steps[j].run_id = r.run_id
              /\ call.d.steps[j].classification = "architectural"
    /\ call.has_architectural = "false" =>
          \A j \in 1..Len(call.d.steps) :
              call.d.steps[j].run_id = r.run_id =>
                  call.d.steps[j].classification # "architectural"
    /\ call.build_phase # NULL =>
          \E j \in 1..Len(call.d.steps) :
              /\ call.d.steps[j].run_id = r.run_id
              /\ call.d.steps[j].build_phase = call.build_phase
    /\ call.error_category # NULL =>
          \E j \in 1..Len(call.d.failures) :
              /\ call.d.failures[j].run_id = r.run_id
              /\ call.d.failures[j].category = call.error_category

\* C14: the response holds exactly the runs that satisfy every supplied
\* filter, each once, latest first.
C14_FilterComposition ==
    (call.op = "list" /\ call.pc = "done") =>
        /\ \A j \in 1..Len(call.d.runs) :
             Satisfies(call.d.runs[j]) <=>
                 \E k \in 1..Len(call.result) : call.result[k] = call.d.runs[j]
        /\ \A k \in 1..Len(call.result) :
             /\ \E j \in 1..Len(call.d.runs) : call.d.runs[j] = call.result[k]
             /\ \A i \in 1..Len(call.result) :
                  call.result[i].run_id = call.result[k].run_id => i = k
        /\ \A k \in 1..(Len(call.result) - 1) :
             call.result[k].generated_at >= call.result[k + 1].generated_at

C14_Witness ==
    /\ call.op = "list" /\ call.pc = "done"
    /\ call.status = "failed" /\ call.has_architectural = "true"
    /\ call.build_phase = "b" /\ call.error_category = "timeout"
    /\ Len(call.result) = 1
    /\ \E j \in 1..2 :
         /\ call.d.runs[j] # call.result[1]
         /\ call.d.runs[j].status = "failed"
         /\ architectural_count(call.d, call.d.runs[j].run_id) > 0
         /\ \E k \in 1..Len(call.d.failures) :
              /\ call.d.failures[k].run_id = call.d.runs[j].run_id
              /\ call.d.failures[k].category = "timeout"


\* ------------------------------------------------- two callers at once
\* cursor.execute cannot get the write lock another connection holds and
\* gives up: sqlite3.OperationalError, caught by except Exception.
ExecuteLocked(c) ==
    /\ ing[c].pc = "execute"
    /\ lock \notin {"none", c}
    /\ ing' = [ing EXCEPT ![c] = Failed(c)]
    /\ UNCHANGED <<call, files, db, lock, rd, rm, aux>>

\* Two callers of ingest_reports over the same report file.
NextTwo ==
    \/ Ingest("c1")
    \/ Ingest("c2")
    \/ \E c \in Callers : ExecuteLocked(c)
    \/ WriteOne

SpecTwo == Init /\ [][NextTwo]_vars

\* C15: whatever the interleaving of two callers over the same report, the
\* committed store holds at most one run row per run_id, its step, failure
\* and search rows are exactly those of one ingestion of one report, no row
\* exists without its run, and a caller that has returned has counted the
\* file as ingested, skipped or error.
C15_ConcurrentSameRun ==
    /\ \A r \in RunIds :
         /\ Len(RowsOf(db, "runs", r)) <= 1
         /\ Len(RowsOf(db, "runs", r)) = 1 => HoldsExactly(db, RowsOf(db, "runs", r)[1].src)
         /\ Len(RowsOf(db, "runs", r)) = 0 =>
              \A t \in Tables : RowsOf(db, t, r) = <<>>
    /\ \A c \in Callers :
         ing[c].pc = "done" =>
            /\ \A j \in 1..Len(ing[c].report_files) :
                 ing[c].log[ing[c].report_files[j]] \in {"ingested", "skipped", "error"}
            /\ ing[c].result.ingested + ing[c].result.skipped + ing[c].result.errors
                 = Len(ing[c].report_files)

C15_Witness ==
    /\ ing["c1"].pc = "done" /\ ing["c2"].pc = "done"
    /\ ~ing["c1"].force /\ ~ing["c2"].force
    /\ ing["c1"].log["a_full.json"] = "ingested"
    /\ ing["c2"].log["a_full.json"] = "error"
    /\ files["a_full.json"] = Full("r1")
    /\ HoldsExactly(db, Full("r1"))


\* C16: when a forced re-ingestion has issued the deletion of an existing
\* run and an insert of the report then raises, the file is counted as an
\* error and the committed rows of the run are unchanged: still the complete
\* rows of the earlier ingestion, although the connection had deleted them;
\* as long as the replacing transaction is open the committed store keeps
\* the run.
C16_FailedReplaceKeepsOld ==
    /\ [][(/\ ing["c1"].pc = "execute" /\ ing["c1"].branch = "replace"
           /\ ing["c1"].i > Len(delete_run_data(ing["c1"].data.run_id))
           /\ ing'["c1"].pc # "execute" /\ ing'["c1"].pc # "commit")
          => /\ ing'["c1"].log[Current("c1")] = "error"
             /\ ing'["c1"].result.errors = ing["c1"].result.errors + 1
             /\ ing'["c1"].result.ingested = ing["c1"].result.ingested
             /\ db' = db
             /\ RowsOf(db', "runs", ing["c1"].data.run_id) # <<>>
             /\ HoldsExactly(db', RowsOf(db', "runs", ing["c1"].data.run_id)[1].src)
             /\ RowsOf(ing["c1"].conn, "runs", ing["c1"].data.run_id)
                  # RowsOf(db', "runs", ing["c1"].data.run_id)]_vars
    /\ []((ing["c1"].pc \in {"execute", "commit"} /\ ing["c1"].branch = "replace") =>
             /\ run_exists(db, ing["c1"].data.run_id)
             /\ ing["c1"].force)

C16_Witness ==
    \E f \in Files, r \in RunIds :
        /\ ing["c1"].force /\ ing["c1"].log[f] = "error"
        /\ files[f] = Dup(r)
        /\ HoldsExactly(aux.db0, Full(r))
        /\ HoldsExactly(db, Full(r))

\* The steps of a call that has started.
Running(c) ==
    \/ InvalidJson(c)
    \/ NoRunId(c)
    \/ Skip(c)
    \/ Open(c)
    \/ ExecuteOk(c)
    \/ ExecuteRaises(c)
    \/ Commit(c)
    \/ Return(c)

\* One caller whose call, once started, keeps running.
SpecLive == Init /\ [][Next]_vars /\ WF_vars(Running("c1"))

\* The files of the call that ended with the outcome.
Outcome(c, outcome) == {f \in Files : ing[c].log[f] = outcome}

\* C17: every call returns; the files it visits are the files present, each
\* once, one per step of the loop and each step adding 1 to exactly one
\* counter; in the result each counter is the number of files with that
\* outcome and the three add up to the number of files (0, 0, 0 without any).
C17_Accounting ==
    /\ (ing["c1"].pc # "idle") ~> (ing["c1"].pc = "done")
    /\ [](ing["c1"].pc # "idle" =>
            /\ {ing["c1"].report_files[j] : j \in 1..Len(ing["c1"].report_files)}
                 = {f \in Files : files[f].kind # "absent"}
            /\ Len(ing["c1"].report_files)
                 = Cardinality({f \in Files : files[f].kind # "absent"})
            /\ ing["c1"].result.ingested = Cardinality(Outcome("c1", "ingested"))
            /\ ing["c1"].result.skipped = Cardinality(Outcome("c1", "skipped"))
            /\ ing["c1"].result.errors = Cardinality(Outcome("c1", "error"))
            /\ ing["c1"].result.ingested + ing["c1"].result.skipped
                 + ing["c1"].result.errors = ing["c1"].k - 1
            /\ (ing["c1"].pc = "done" => ing["c1"].k = Len(ing["c1"].report_files) + 1))
    /\ [][(ing["c1"].pc # "idle" /\ ing'["c1"].pc # "idle") =>
            /\ ing'["c1"].report_files = ing["c1"].report_files
            /\ ing'["c1"].k \in {ing["c1"].k, ing["c1"].k + 1}
            /\ ing'["c1"].k = ing["c1"].k + 1 =>
                 /\ Ends("c1", Current("c1"))
                 /\ \A f \in Files \ {Current("c1")} :
                      ing'["c1"].log[f] = ing["c1"].log[f]]_vars

C17_Witness ==
    /\ ing["c1"].pc = "done" /\ Len(ing["c1"].report_files) = 2
    /\ ing["c1"].result = [ingested |-> 0, skipped |-> 1, errors |-> 1]
    /\ \E f \in Files : files[f].run_id = NULL /\ files[f].kind = "json"

====
